---------------------------- MODULE Spec2Model ----------------------------
(***************************************************************************)
(* A model of rust-tcp: the per-connection TCP engine of src/src/tcp.rs    *)
(* (accept, on_packet, on_tick, write, close) and the connection table and *)
(* handles of src/src/lib.rs (packet_loop, bind, TcpListener, TcpStream).  *)
(*                                                                         *)
(* A u32 is kept at its full width as two 16-bit limbs [hi, lo], so that   *)
(* wrapping and overflow are those of the code.  Instants and Durations    *)
(* are integers in milliseconds.                                           *)
(***************************************************************************)
EXTENDS Integers, Sequences, FiniteSets, TLC

VARIABLES
    overflow_checks, \* TRUE: a debug build (integer overflow panics); FALSE: release (wraps)
    connections,     \* ConnectionManager.connections: Quad -> Connection
    pending,         \* ConnectionManager.pending: port -> queue of Quads
    streams,         \* the live TcpStream handles, each holding its Quad
    now,             \* the clock Instant::now() reads, in ms
    advances,        \* how often the clock has advanced
    npackets,        \* how many segments have reached accept or on_packet
    nwrites,         \* how many bytes the local writer has handed to Stream.write
    wire,            \* the segments the last operation emitted on the tun device
    delivered,       \* per Quad, every byte ever appended to Connection.incoming
    panicked,        \* "none", or the panic that ended the thread holding the table lock
    call,            \* the pure function applied to the drawn arguments, and its result
    tx,              \* per Quad, every sequence number ever emitted and what it carried
    readout,         \* per Quad, every byte Stream.read has returned
    pc,              \* where the packet_loop thread, the consumer thread and the
                     \* owner of the Interface stand
    terminate        \* ConnectionManager.terminate

vars == <<overflow_checks, connections, pending, streams, now, advances,
          npackets, nwrites, wire, delivered, panicked, call, tx, readout, pc, terminate>>

-----------------------------------------------------------------------------
(* u32 arithmetic on two 16-bit limbs *)

Limb == 256 * 256

U32(h, l) == [hi |-> h, lo |-> l]

\* the u32 of a natural number below 2^31
U(n) == U32(n \div Limb, n % Limb)

MaxU32 == U32(Limb - 1, Limb - 1)

\* u32::wrapping_add
wrapping_add(a, b) ==
    LET lo == a.lo + b.lo
        hi == a.hi + b.hi + (lo \div Limb)
    IN  U32(hi % Limb, lo % Limb)

\* u32::wrapping_sub
wrapping_sub(a, b) ==
    LET borrow == IF a.lo < b.lo THEN 1 ELSE 0
        lo == a.lo - b.lo + Limb * borrow
        hi == a.hi - b.hi - borrow + Limb
    IN  U32(hi % Limb, lo)

\* the numeric order of u32 (Ord for u32)
ULt(a, b) == a.hi < b.hi \/ (a.hi = b.hi /\ a.lo < b.lo)
ULe(a, b) == a = b \/ ULt(a, b)

\* a + b overflows u32; a - b underflows it
AddOverflows(a, b) == a.hi + b.hi + ((a.lo + b.lo) \div Limb) >= Limb
SubUnderflows(a, b) == ULt(a, b)

\* usize::min(len, x as usize) for a length len and a u32 x
MinLen(len, x) == IF x.hi = 0 /\ x.lo < len THEN x.lo ELSE len

Min(a, b) == IF a < b THEN a ELSE b


-----------------------------------------------------------------------------
(* wrapping comparison, tcp.rs:570-583 *)

\* Rust's a ^ b on integers: bitwise exclusive or
RECURSIVE BitXor(_, _)
BitXor(a, b) ==
    IF a = 0 /\ b = 0 THEN 0
    ELSE (((a % 2) + (b % 2)) % 2) + 2 * BitXor(a \div 2, b \div 2)

\* the constant 2 ^ 31 of wrapping_lt, as Rust evaluates it
two_xor_31 == BitXor(2, 31)

\* fn wrapping_lt: lhs.wrapping_sub(rhs) > 2 ^ 31
wrapping_lt(lhs, rhs) == ULt(U(two_xor_31), wrapping_sub(lhs, rhs))

\* fn is_between_wrapped
is_between_wrapped(start, x, end) == wrapping_lt(start, x) /\ wrapping_lt(x, end)

-----------------------------------------------------------------------------
(* Option<T> as a sequence of at most one element *)

None == <<>>
Some(x) == <<x>>
is_some(o) == o /= <<>>
unwrap(o) == o[1]

-----------------------------------------------------------------------------
(* Connection, tcp.rs:36-57 *)

SyncRcvd == "SyncRcvd"
Estab == "Estab"
FinWait1 == "FinWait1"
FinWait2 == "FinWait2"
TimeWait == "TimeWait"
States == {SyncRcvd, Estab, FinWait1, FinWait2, TimeWait}

\* a panic unwinds out of the operation: the fields written so far stay written
Panic(c, why) == [c |-> c, out |-> <<>>, panic |-> why]
Done(c, out) == [c |-> c, out |-> out, panic |-> "none"]

\* Connection::is_rev_closed
is_rev_closed(c) == c.state = TimeWait

\* Connection::availablity: the set of Available flags
availablity(c) ==
    IF is_rev_closed(c) \/ c.incoming /= <<>> THEN {"READ"} ELSE {}

\* Connection::have_sent_fin
have_sent_fin(c) == c.state \in {FinWait1, FinWait2, TimeWait}

\* Connection::close: the connection after it, and whether it returned Ok
close(c) ==
    LET c1 == [c EXCEPT !.closed = TRUE]
    IN  IF c.state \in {SyncRcvd, Estab}
            THEN [c |-> [c1 EXCEPT !.state = FinWait1], ok |-> TRUE]
        ELSE IF c.state \in {FinWait1, FinWait2}
            THEN [c |-> c1, ok |-> TRUE]
        ELSE [c |-> c1, ok |-> FALSE]

\* BTreeMap::insert on timer.send_tiems, a set of [seq, at] entries with distinct seq
tiems_insert(m, seqn, t) ==
    {e \in m : e.seq /= seqn} \cup {[seq |-> seqn, at |-> t]}

\* the bytes a 1500-byte cursor still takes after a 20-byte IPv4 and a 20-byte TCP header
payload_room == 1500 - 20 - 20

\* Connection::write: the connection after it and the segment it emitted at time t
write(c, seqn, payload, t) ==
    LET payload_bytes == Min(Len(payload), payload_room)
        seg == [seq |-> seqn, ack |-> c.recv.nxt, syn |-> c.tcp.syn, ackf |-> c.tcp.ack,
                fin |-> c.tcp.fin, wnd |-> c.tcp.window_size,
                data |-> SubSeq(payload, 1, payload_bytes)]
        next_seq == wrapping_add(seqn, U(payload_bytes))
        nxt1 == IF c.tcp.syn THEN wrapping_add(c.send.nxt, U(1)) ELSE c.send.nxt
        nxt2 == IF c.tcp.fin THEN wrapping_add(nxt1, U(1)) ELSE nxt1
        nxt3 == IF wrapping_lt(nxt2, next_seq) THEN next_seq ELSE nxt2
    IN  [c |-> [c EXCEPT !.tcp.syn = FALSE, !.tcp.fin = FALSE, !.send.nxt = nxt3,
                         !.timer.send_tiems = tiems_insert(@, seqn, t)],
         seg |-> seg]

\* the initial send sequence number and window of Connection::accept
iss == 0
wnd == 10

\* Connection::accept for a segment tcph arriving at time t, the build checking
\* overflow or not: None, or Some connection with the SYN-ACK it emitted
accept(tcph, t, checks) ==
    IF ~tcph.syn THEN [c |-> None, out |-> <<>>, panic |-> "none"]
    ELSE IF checks /\ AddOverflows(tcph.seq, U(1))
        THEN [c |-> None, out |-> <<>>, panic |-> "overflow: sequence_number + 1"]
    ELSE
        LET c0 == [state |-> SyncRcvd,
                   send |-> [iss |-> U(iss), una |-> U(iss), nxt |-> U(iss), wnd |-> U(wnd)],
                   recv |-> [nxt |-> wrapping_add(tcph.seq, U(1)), wnd |-> U(tcph.wnd),
                             irs |-> tcph.seq],
                   tcp |-> [syn |-> TRUE, ack |-> TRUE, fin |-> FALSE, window_size |-> wnd],
                   incoming |-> <<>>,
                   unacked |-> <<>>,
                   closed |-> FALSE,
                   timer |-> [send_tiems |-> {}, srtt |-> 60 * 1000],
                   closed_at |-> None]
            w == write(c0, c0.send.nxt, <<>>, t)
        IN  [c |-> Some(w.c), out |-> <<w.seg>>, panic |-> "none"]

-----------------------------------------------------------------------------
(* Connection::on_packet, tcp.rs:232-422 *)

\* SEG.LEN: the payload, plus one for a FIN, plus one for a SYN
seg_len(tcph) ==
    Len(tcph.data) + (IF tcph.fin THEN 1 ELSE 0) + (IF tcph.syn THEN 1 ELSE 0)

\* the valid segment check (tcp.rs:250-275): "okay", "not_okay", or "panic" where
\* seqn + slen - 1 overflows in a build that checks overflow
segment_okay(recv_nxt, recv_wnd, seqn, slen, checks) ==
    LET wend == wrapping_add(recv_nxt, recv_wnd)
        nxt == wrapping_sub(recv_nxt, U(1))
        seg_end == wrapping_sub(wrapping_add(seqn, U(slen)), U(1))
    IN  IF slen = 0
            THEN IF recv_wnd = U(0)
                    THEN (IF seqn /= recv_nxt THEN "not_okay" ELSE "okay")
                 ELSE IF ~is_between_wrapped(nxt, seqn, wend) THEN "not_okay"
                 ELSE "okay"
        ELSE IF recv_wnd = U(0) THEN "not_okay"
        ELSE IF is_between_wrapped(nxt, seqn, wend) THEN "okay"
        ELSE IF checks /\ AddOverflows(seqn, U(slen)) THEN "panic"
        ELSE IF is_between_wrapped(nxt, seg_end, wend) THEN "okay"
        ELSE "not_okay"

\* a segment without ACK (tcp.rs:286-295)
on_packet_no_ack(c, tcph) ==
    LET c1 == [c EXCEPT !.recv.nxt = wrapping_add(tcph.seq, U(seg_len(tcph)))]
    IN  IF ~tcph.syn THEN Done(c1, <<>>)
        ELSE IF tcph.data /= <<>> THEN Panic(c1, "assert!(data.is_empty())")
        ELSE Done([c1 EXCEPT !.recv.nxt = wrapping_add(tcph.seq, U(1))], <<>>)

\* SyncRcvd: the ACK of our SYN (tcp.rs:299-311)
on_packet_syn_acked(c, ackn) ==
    IF c.state = SyncRcvd
       /\ is_between_wrapped(wrapping_sub(c.send.una, U(1)), ackn,
                             wrapping_add(c.send.nxt, U(1)))
        THEN [c EXCEPT !.state = Estab]
    ELSE c

\* the entries of send_tiems in the order BTreeMap::retain visits them
RECURSIVE tiems_sorted(_)
tiems_sorted(m) ==
    IF m = {} THEN <<>>
    ELSE LET e == CHOOSE x \in m : \A y \in m : ULe(x.seq, y.seq)
         IN  <<e>> \o tiems_sorted(m \ {e})

\* send_tiems.retain (tcp.rs:339-349): each entry between una and ackn feeds srtt
\* and is dropped
RECURSIVE tiems_retain(_, _, _, _, _)
tiems_retain(es, timer, una, ackn, t) ==
    IF es = <<>> THEN timer
    ELSE LET e == Head(es)
         IN  IF is_between_wrapped(una, e.seq, ackn)
                THEN tiems_retain(Tail(es),
                        [send_tiems |-> timer.send_tiems \ {e},
                         srtt |-> (8 * timer.srtt + 2 * (t - e.at)) \div 10],
                        una, ackn, t)
             ELSE tiems_retain(Tail(es), timer, una, ackn, t)

\* pruning unacked and send_tiems for an acceptable ack (tcp.rs:327-350)
prune_acked(c, ackn, t) ==
    IF c.unacked = <<>> THEN c
    ELSE LET data_start == IF c.send.una = c.send.iss
                              THEN wrapping_add(c.send.una, U(1))
                              ELSE c.send.una
             acked_data_end == MinLen(Len(c.unacked), wrapping_sub(ackn, data_start))
         IN  [c EXCEPT !.unacked = SubSeq(@, acked_data_end + 1, Len(@)),
                       !.timer = tiems_retain(tiems_sorted(c.timer.send_tiems),
                                              c.timer, c.send.una, ackn, t)]

\* ACK processing in Estab, FinWait1, FinWait2 (tcp.rs:321-363)
on_packet_ack(c, ackn, t) ==
    IF c.state \notin {Estab, FinWait1, FinWait2} THEN c
    ELSE LET c1 == IF is_between_wrapped(c.send.una, ackn, wrapping_add(c.send.nxt, U(1)))
                      THEN [prune_acked(c, ackn, t) EXCEPT !.send.una = ackn]
                      ELSE c
         IN  IF c1.state = Estab
                THEN [c1 EXCEPT !.tcp.fin = TRUE, !.state = FinWait1]
             ELSE c1

\* FinWait1: our FIN has been ACKed (tcp.rs:365-372)
on_packet_fin_acked(c) ==
    IF c.state = FinWait1 /\ is_some(c.closed_at)
       /\ c.send.una = wrapping_add(unwrap(c.closed_at), U(1))
        THEN [c EXCEPT !.state = FinWait2]
    ELSE c

\* the payload (tcp.rs:374-411)
on_packet_data(c, tcph, t, checks) ==
    IF tcph.data = <<>> \/ c.state \notin {Estab, FinWait1, FinWait2} THEN Done(c, <<>>)
    ELSE IF checks /\ SubUnderflows(c.recv.nxt, tcph.seq)
        THEN Panic(c, "overflow: recv.nxt - seqn")
    ELSE LET diff == wrapping_sub(c.recv.nxt, tcph.seq)
             beyond == ULt(U(Len(tcph.data)), diff)
         IN  IF beyond /\ diff /= U(Len(tcph.data) + 1)
                THEN Panic(c, "assert_eq!(unread_data_at, data.len() + 1)")
             ELSE LET unread_data_at == IF beyond THEN 0 ELSE diff.lo
                      c1 == [c EXCEPT
                               !.incoming = @ \o SubSeq(tcph.data, unread_data_at + 1,
                                                        Len(tcph.data)),
                               !.recv.nxt = wrapping_add(tcph.seq,
                                                U(IF tcph.fin THEN 1 ELSE 0))]
                      w == write(c1, c1.send.nxt, <<>>, t)
                  IN  Done(w.c, <<w.seg>>)

\* on_packet_fin with the peer's FIN reopening the connection: not what the code does
on_packet_fin_reopen(c, tcph, t) ==
    IF c.state = FinWait2 /\ tcph.fin
        THEN LET c1 == [c EXCEPT !.recv.nxt = wrapping_add(@, U(1))]
                 w == write(c1, c1.send.nxt, <<>>, t)
             IN  Done([w.c EXCEPT !.state = Estab], <<w.seg>>)
    ELSE Done(c, <<>>)

\* FinWait2: the peer's FIN (tcp.rs:413-420)
on_packet_fin(c, tcph, t) ==
    IF c.state = FinWait2 /\ tcph.fin
        THEN LET c1 == [c EXCEPT !.recv.nxt = wrapping_add(@, U(1))]
                 w == write(c1, c1.send.nxt, <<>>, t)
             IN  Done([w.c EXCEPT !.state = TimeWait], <<w.seg>>)
    ELSE Done(c, <<>>)

\* Connection::on_packet: the connection after the segment tcph handled at time t,
\* the segments emitted, and the panic that ended it ("none": it returned)
on_packet(c, tcph, t, checks) ==
    LET okay == segment_okay(c.recv.nxt, c.recv.wnd, tcph.seq, seg_len(tcph), checks)
    IN  IF okay = "panic" THEN Panic(c, "overflow: seqn + slen")
        ELSE IF okay = "not_okay"
            THEN LET w == write(c, c.send.nxt, <<>>, t) IN Done(w.c, <<w.seg>>)
        ELSE IF ~tcph.ackf THEN on_packet_no_ack(c, tcph)
        ELSE LET c1 == on_packet_syn_acked(c, tcph.ack)
                 c2 == on_packet_ack(c1, tcph.ack, t)
                 c3 == on_packet_fin_acked(c2)
                 d == on_packet_data(c3, tcph, t, checks)
             IN  IF d.panic /= "none" THEN d
                 ELSE LET f == on_packet_fin(d.c, tcph, t)
                      IN  Done(f.c, d.out \o f.out)

-----------------------------------------------------------------------------
(* Connection::on_tick, tcp.rs:167-230 *)

\* the retransmit decision (tcp.rs:176-188): the first send time at or after una
\* is older than one second and than 1.5 srtt
should_retransmit(c, t) ==
    LET from_una == {e \in c.timer.send_tiems : ULe(c.send.una, e.seq)}
    IN  /\ from_una /= {}
        /\ LET first == CHOOSE x \in from_una : \A y \in from_una : ULe(x.seq, y.seq)
               waited_for == t - first.at
           IN  waited_for > 1000 /\ waited_for > (15 * c.timer.srtt) \div 10

\* the retransmission (tcp.rs:190-199)
on_tick_retransmit(c, t) ==
    LET resend == MinLen(Len(c.unacked), c.send.wnd)
        c1 == IF ULt(U(resend), c.send.wnd) /\ c.closed
                 THEN [c EXCEPT !.tcp.fin = TRUE,
                                !.closed_at = Some(wrapping_add(c.send.una, U(Len(c.unacked))))]
                 ELSE c
        w == write(c1, c1.send.una, SubSeq(c1.unacked, 1, resend), t)
    IN  Done([w.c EXCEPT !.send.nxt = wrapping_add(w.c.send.una, w.c.send.wnd)], <<w.seg>>)

\* sending new data (tcp.rs:200-222); underflow: unacked.len() - nunacked wrapped
on_tick_send(c, t, checks, nunacked, underflow) ==
    IF ~underflow /\ Len(c.unacked) - nunacked.lo = 0 /\ is_some(c.closed_at)
        THEN Done(c, <<>>)
    ELSE IF checks /\ SubUnderflows(c.send.wnd, nunacked)
        THEN Panic(c, "overflow: send.wnd - nunacked")
    ELSE LET allowed == wrapping_sub(c.send.wnd, nunacked)
         IN  IF allowed = U(0) THEN Done(c, <<>>)
             ELSE IF underflow
                THEN Panic(c, "slice index starts beyond the end of unacked")
             ELSE LET unsent == Len(c.unacked) - nunacked.lo
                      send == MinLen(unsent, allowed)
                      c1 == IF ULt(U(send), allowed) /\ c.closed /\ ~is_some(c.closed_at)
                               THEN [c EXCEPT !.tcp.fin = TRUE,
                                              !.closed_at = Some(wrapping_add(c.send.nxt, U(unsent)))]
                               ELSE c
                      w == write(c1, c1.send.nxt,
                                 SubSeq(c1.unacked, nunacked.lo + 1, nunacked.lo + send), t)
                  IN  Done(w.c, <<w.seg>>)

\* Connection::on_tick at time t
on_tick(c, t, checks) ==
    IF c.state \in {FinWait2, TimeWait} THEN Done(c, <<>>)
    ELSE LET nunacked == wrapping_sub(c.send.nxt, c.send.una)
             underflow == ULt(U(Len(c.unacked)), nunacked)
         IN  IF checks /\ underflow THEN Panic(c, "overflow: unacked.len() - nunacked")
             ELSE IF should_retransmit(c, t) THEN on_tick_retransmit(c, t)
             ELSE on_tick_send(c, t, checks, nunacked, underflow)

-----------------------------------------------------------------------------
(* the bounds of the model, and the inputs drawn at each step *)

MaxPackets == 3     \* segments that reach accept or on_packet
MaxWritten == 2     \* bytes the local writer hands to Stream.write
MaxAdvances == 1    \* advances of the clock

Quad(sport, dport) == [src |-> <<"10.0.0.2", sport>>, dst |-> <<"10.0.0.1", dport>>]

\* the peer endpoints that send frames, and the ports the host program binds
Quads == {Quad(40000, 9000), Quad(40000, 9001)}
Ports == {9000}

\* the peer endpoints and the ports where the connection table is checked on its
\* own: two peers of one port, and one of another
TableQuads == {Quad(40000, 9000), Quad(40001, 9000), Quad(40000, 9001)}
TablePorts == {9000, 9001}

\* the SYNs a peer opens with: its initial sequence number and advertised window
PeerOpens == {[irs |-> U(1000), wnd |-> 64240],
              [irs |-> U32(Limb - 1, Limb - 2), wnd |-> 4]}

\* a segment's sequence number is the peer's initial one plus an offset; its
\* acknowledgment number is send.una or send.nxt plus an offset
SeqOffs == {0, 1, 40}
UnaOffs == {0, 1}
NxtOffs == {0, 1, 40}
DataLens == {0, 2}
FlagsAck == [syn |-> FALSE, ackf |-> TRUE, fin |-> FALSE]
FlagsFinAck == [syn |-> FALSE, ackf |-> TRUE, fin |-> TRUE]
FlagsSyn == [syn |-> TRUE, ackf |-> FALSE, fin |-> FALSE]
FlagsNone == [syn |-> FALSE, ackf |-> FALSE, fin |-> FALSE]

\* the clock advances by 100 s, past every retransmission timeout; a read or write
\* buffer's length
Delays == {100000}
BufLens == {1, 2}

\* byte k of a byte stream (the peer's, or the local writer's)
StreamByte(k) == (k + 256) % 256

\* the segment a peer with initial sequence number irs sends at offset d: its
\* payload is the n bytes of the peer's stream that belong at that sequence number
PeerSegment(irs, d, a, fl, n, w) ==
    LET first == d - 1 + (IF fl.syn THEN 1 ELSE 0)
    IN  [seq |-> wrapping_add(irs, U(d)), ack |-> a,
         syn |-> fl.syn, ackf |-> fl.ackf, fin |-> fl.fin, wnd |-> w,
         data |-> [i \in 1..n |-> StreamByte(first + i - 1)]]

-----------------------------------------------------------------------------
(* the connection table and the handles, lib.rs *)

\* what the segments of out put on the wire: the SYN at seq, the payload bytes
\* after it, the FIN after them (write, tcp.rs:488-543)
SYN_MARK == 256
FIN_MARK == 257
EmittedBy(seg) ==
    LET s == IF seg.syn THEN 1 ELSE 0
    IN  (IF seg.syn THEN {[seq |-> seg.seq, what |-> SYN_MARK]} ELSE {})
        \cup {[seq |-> wrapping_add(seg.seq, U(s + i - 1)), what |-> seg.data[i]] :
                 i \in DOMAIN seg.data}
        \cup (IF seg.fin
                THEN {[seq |-> wrapping_add(seg.seq, U(s + Len(seg.data))), what |-> FIN_MARK]}
              ELSE {})
Emitted(out) == UNION {EmittedBy(out[i]) : i \in DOMAIN out}

Put(f, k, v) == [x \in DOMAIN f \cup {k} |-> IF x = k THEN v ELSE f[x]]
Remove(f, k) == [x \in DOMAIN f \ {k} |-> f[x]]
Empty == [x \in {} |-> x]

Init ==
    /\ overflow_checks \in BOOLEAN
    /\ connections = Empty
    /\ pending = Empty
    /\ streams = <<>>
    /\ now = 0
    /\ advances = 0
    /\ npackets = 0
    /\ nwrites = 0
    /\ wire = <<>>
    /\ delivered = [q \in Quads \cup TableQuads |-> <<>>]
    /\ panicked = "none"
    /\ tx = [q \in Quads \cup TableQuads |-> {}]
    /\ readout = [q \in Quads \cup TableQuads |-> <<>>]
    /\ pc = [loop |-> "recv", consumer |-> "idle", arg |-> <<>>, iface |-> "live"]
    /\ terminate = FALSE
    /\ call = [fn |-> "none", args |-> <<>>, ret |-> "none"]

\* a bind that registers an empty queue whether or not the port is bound
bind_overwrite(pend, port) == [pending |-> Put(pend, port, <<>>), ret |-> "Ok"]

\* Interface::bind, lib.rs:150-168: the pending table after it, and its result
bind(pend, port) ==
    IF port \in DOMAIN pend
        THEN [pending |-> pend, ret |-> "AddrInUse"]
    ELSE [pending |-> Put(pend, port, <<>>), ret |-> "Ok"]

Bind(port) ==
    /\ panicked = "none"
    /\ pending' = bind(pending, port).pending
    /\ wire' = <<>>
    /\ UNCHANGED <<overflow_checks, terminate, connections, streams, now, advances, npackets,
                   nwrites, delivered, panicked, call, tx, readout, pc>>

\* packet_loop on a frame that is no well-formed IPv4 TCP segment, lib.rs:65-70, 121-128
RecvOther ==
    /\ panicked = "none"
    /\ wire' = <<>>
    /\ UNCHANGED <<overflow_checks, terminate, connections, pending, streams, now, advances,
                   npackets, nwrites, delivered, panicked, call, tx, readout, pc>>

\* packet_loop on a TCP segment of a known Quad, lib.rs:84-98
RecvKnown(q, tcph) ==
    /\ q \in DOMAIN connections
    /\ npackets < MaxPackets
    /\ npackets' = npackets + 1
    /\ LET c == connections[q]
           r == on_packet(c, tcph, now, overflow_checks)
       IN  /\ connections' = [connections EXCEPT ![q] = r.c]
           /\ wire' = r.out
           /\ panicked' = r.panic
           /\ delivered' = [delivered EXCEPT
                  ![q] = @ \o SubSeq(r.c.incoming, Len(c.incoming) + 1, Len(r.c.incoming))]
           /\ tx' = [tx EXCEPT ![q] = @ \cup Emitted(r.out)]
    /\ UNCHANGED <<pending, readout>>

\* packet_loop on a TCP segment of an unknown Quad, lib.rs:99-118
RecvUnknown(q, tcph) ==
    /\ q \notin DOMAIN connections
    /\ IF q.dst[2] \in DOMAIN pending
          THEN LET r == accept(tcph, now, overflow_checks)
               IN  /\ wire' = r.out
                   /\ panicked' = r.panic
                   /\ IF is_some(r.c)
                         THEN /\ npackets < MaxPackets
                              /\ npackets' = npackets + 1
                              /\ connections' = Put(connections, q, unwrap(r.c))
                              /\ pending' = [pending EXCEPT ![q.dst[2]] = Append(@, q)]
                              /\ delivered' = [delivered EXCEPT ![q] = <<>>]
                              /\ tx' = [tx EXCEPT ![q] = Emitted(r.out)]
                              /\ readout' = [readout EXCEPT ![q] = <<>>]
                         ELSE UNCHANGED <<connections, pending, delivered, npackets, tx, readout>>
          ELSE /\ wire' = <<>>
               /\ UNCHANGED <<connections, pending, delivered, panicked, npackets, tx, readout>>

\* packet_loop on a well-formed TCP segment, lib.rs:75-119, up to the release of
\* the lock
packet_loop(q, tcph) ==
    /\ panicked = "none"
    /\ \/ RecvKnown(q, tcph)
       \/ RecvUnknown(q, tcph)
    /\ UNCHANGED <<overflow_checks, terminate, streams, now, advances, nwrites, call>>

\* one iteration of packet_loop, its notification included
Recv(q, tcph) ==
    /\ packet_loop(q, tcph)
    /\ UNCHANGED pc

\* TcpListener::accept that reads the front of its queue and leaves it there
ListenerAcceptNoPop(port) ==
    /\ panicked = "none"
    /\ port \in DOMAIN pending
    /\ pending[port] /= <<>>
    /\ Len(streams) < 2
    /\ streams' = Append(streams, Head(pending[port]))
    /\ wire' = <<>>
    /\ UNCHANGED <<overflow_checks, terminate, connections, pending, now, advances, npackets,
                   nwrites, delivered, panicked, call, tx, readout, pc>>

\* TcpListener::accept once its queue holds a Quad, lib.rs:272-288
ListenerAccept(port) ==
    /\ panicked = "none"
    /\ port \in DOMAIN pending
    /\ pending[port] /= <<>>
    /\ pending' = [pending EXCEPT ![port] = Tail(@)]
    /\ streams' = Append(streams, Head(pending[port]))
    /\ wire' = <<>>
    /\ UNCHANGED <<overflow_checks, terminate, connections, now, advances, npackets, nwrites,
                   delivered, panicked, call, tx, readout, pc>>

SENDQUEUE_SIZE == 1024

\* a write that takes all of buf whatever room the send queue has left
stream_write_all(conns, q, buf) ==
    IF q \notin DOMAIN conns
        THEN [connections |-> conns, ret |-> "ConnectionAborted", n |-> 0]
    ELSE IF Len(conns[q].unacked) >= SENDQUEUE_SIZE
        THEN [connections |-> conns, ret |-> "WouldBlock", n |-> 0]
    ELSE [connections |-> [conns EXCEPT ![q].unacked = @ \o buf],
          ret |-> "Ok", n |-> Len(buf)]

\* Write for TcpStream, lib.rs:209-227: the table after write(buf) on the stream
\* of Quad q, its result, and the bytes it took
stream_write(conns, q, buf) ==
    IF q \notin DOMAIN conns
        THEN [connections |-> conns, ret |-> "ConnectionAborted", n |-> 0]
    ELSE IF Len(conns[q].unacked) >= SENDQUEUE_SIZE
        THEN [connections |-> conns, ret |-> "WouldBlock", n |-> 0]
    ELSE LET nwrite == Min(Len(buf), SENDQUEUE_SIZE - Len(conns[q].unacked))
         IN  [connections |->
                  [conns EXCEPT ![q].unacked = @ \o SubSeq(buf, 1, nwrite)],
              ret |-> "Ok", n |-> nwrite]

\* the local writer hands the next n bytes of its stream to stream i
StreamWrite(i, n) ==
    /\ panicked = "none"
    /\ i \in DOMAIN streams
    /\ nwrites + n <= MaxWritten
    /\ LET buf == [k \in 1..n |-> StreamByte(nwrites + k - 1)]
           r == stream_write(connections, streams[i], buf)
       IN  /\ connections' = r.connections
           /\ nwrites' = nwrites + r.n
    /\ wire' = <<>>
    /\ UNCHANGED <<overflow_checks, terminate, pending, streams, now, advances, npackets,
                   delivered, panicked, call, tx, readout, pc>>

\* a read that copies the head of incoming out and leaves incoming as it was
stream_read_peek(conns, q, n) ==
    IF q \notin DOMAIN conns
        THEN [connections |-> conns, ret |-> "ConnectionAborted", buf |-> <<>>]
    ELSE IF conns[q].incoming /= <<>>
        THEN [connections |-> conns, ret |-> "Ok",
              buf |-> SubSeq(conns[q].incoming, 1, Min(n, Len(conns[q].incoming)))]
    ELSE [connections |-> conns, ret |-> "Ok", buf |-> <<>>]

\* the buffer of n bytes the local writer hands over next
WriterBuf(n) == [k \in 1..n |-> StreamByte(nwrites + k - 1)]

\* the local writer hands a large buffer to stream i, as long as the connection
\* takes bytes; the send queue bounds what it takes
StreamWriteBulk(i, n) ==
    /\ panicked = "none"
    /\ i \in DOMAIN streams
    /\ LET r == stream_write(connections, streams[i], WriterBuf(n))
       IN  /\ connections' = r.connections
           /\ nwrites' = nwrites + r.n
    /\ wire' = <<>>
    /\ UNCHANGED <<overflow_checks, terminate, pending, streams, now, advances, npackets,
                   delivered, panicked, call, tx, readout, pc>>

\* Read for TcpStream, lib.rs:177-205: the table after read into an n-byte buffer
\* on the stream of Quad q, its result and the bytes it returned; "wait" where it
\* waits on rcv_var
stream_read(conns, q, n) ==
    IF q \notin DOMAIN conns
        THEN [connections |-> conns, ret |-> "ConnectionAborted", buf |-> <<>>]
    ELSE IF is_rev_closed(conns[q]) /\ conns[q].incoming = <<>>
        THEN [connections |-> conns, ret |-> "Ok", buf |-> <<>>]
    ELSE IF conns[q].incoming /= <<>>
        THEN LET nread == Min(n, Len(conns[q].incoming))
             IN  [connections |->
                      [conns EXCEPT ![q].incoming = SubSeq(@, nread + 1, Len(@))],
                  ret |-> "Ok", buf |-> SubSeq(conns[q].incoming, 1, nread)]
    ELSE [connections |-> conns, ret |-> "wait", buf |-> <<>>]

\* a read on stream i that returns
StreamRead(i, n) ==
    /\ panicked = "none"
    /\ i \in DOMAIN streams
    /\ LET r == stream_read(connections, streams[i], n)
       IN  /\ r.ret /= "wait"
           /\ connections' = r.connections
           /\ readout' = [readout EXCEPT ![streams[i]] = @ \o r.buf]
    /\ wire' = <<>>
    /\ UNCHANGED <<overflow_checks, terminate, pending, streams, now, advances, npackets, nwrites,
                   delivered, panicked, call, tx, pc>>

\* Drop for TcpListener, lib.rs:291-304: the pending table after it, and the
\* panic of unimplemented!() where a Quad is still queued
listener_drop(conns, pend, port) ==
    [connections |-> conns,
     pending |-> Remove(pend, port),
     panic |-> IF pend[port] /= <<>> THEN "unimplemented!()" ELSE "none"]

\* the listener of a bound port is dropped
ListenerDrop(port) ==
    /\ panicked = "none"
    /\ port \in DOMAIN pending
    /\ LET r == listener_drop(connections, pending, port)
       IN  /\ connections' = r.connections
           /\ pending' = r.pending
           /\ panicked' = r.panic
    /\ wire' = <<>>
    /\ UNCHANGED <<overflow_checks, terminate, streams, now, advances, npackets,
                   nwrites, delivered, call, tx, readout, pc>>

\* TcpStream::shutdown, lib.rs:249-253: the table after it, and its result
stream_shutdown(conns, q) == [connections |-> conns, ret |-> "Ok"]

StreamShutdown(i) ==
    /\ panicked = "none"
    /\ i \in DOMAIN streams
    /\ connections' = stream_shutdown(connections, streams[i]).connections
    /\ wire' = <<>>
    /\ UNCHANGED <<overflow_checks, terminate, pending, streams, now, advances, npackets, nwrites,
                   delivered, panicked, call, tx, readout, pc>>

\* Drop for TcpStream, lib.rs:256-264: the table after it
stream_drop(conns, q) == Remove(conns, q)

StreamDrop(i) ==
    /\ panicked = "none"
    /\ i \in DOMAIN streams
    /\ connections' = stream_drop(connections, streams[i])
    /\ streams' = [k \in 1..(Len(streams) - 1) |-> IF k < i THEN streams[k] ELSE streams[k + 1]]
    /\ wire' = <<>>
    /\ UNCHANGED <<overflow_checks, terminate, pending, now, advances, npackets, nwrites,
                   delivered, panicked, call, tx, readout, pc>>

\* the periodic tick: Connection::on_tick on a connection of the table
Tick(q) ==
    /\ panicked = "none"
    /\ q \in DOMAIN connections
    /\ LET r == on_tick(connections[q], now, overflow_checks)
       IN  /\ connections' = [connections EXCEPT ![q] = r.c]
           /\ wire' = r.out
           /\ panicked' = r.panic
           /\ tx' = [tx EXCEPT ![q] = @ \cup Emitted(r.out)]
    /\ UNCHANGED <<overflow_checks, terminate, pending, streams, now, advances, npackets, nwrites,
                   delivered, call, readout, pc>>

\* the local close: Connection::close on a connection of the table
Close(q) ==
    /\ panicked = "none"
    /\ q \in DOMAIN connections
    /\ connections' = [connections EXCEPT ![q] = close(@).c]
    /\ wire' = <<>>
    /\ UNCHANGED <<overflow_checks, terminate, pending, streams, now, advances, npackets, nwrites,
                   delivered, panicked, call, tx, readout, pc>>

\* time passes
Advance(d) ==
    /\ panicked = "none"
    /\ advances < MaxAdvances
    /\ advances' = advances + 1
    /\ now' = now + d
    /\ UNCHANGED <<overflow_checks, terminate, connections, pending, streams, npackets, nwrites,
                   wire, delivered, panicked, call, tx, readout, pc>>

\* the segments the peer of Quad q may send now: to a connection, segments at the
\* offsets of its own sequence space that acknowledge around ours; to a listener,
\* its SYNs and a segment that is none; to no one, whatever
PeerSegments(q) ==
    IF q \in DOMAIN connections
        THEN LET c == connections[q]
                 acks == {wrapping_add(c.send.una, U(k)) : k \in UnaOffs}
                         \cup {wrapping_add(c.send.nxt, U(k)) : k \in NxtOffs}
             IN  {PeerSegment(c.recv.irs, d, a, fl, n, c.recv.wnd.lo) :
                     d \in SeqOffs, a \in acks, fl \in {FlagsAck, FlagsFinAck},
                     n \in DataLens}
                 \cup {PeerSegment(c.recv.irs, 0, U(0), FlagsSyn, n, c.recv.wnd.lo) :
                     n \in DataLens}
                 \cup {PeerSegment(c.recv.irs, 1, U(0), FlagsNone, n, c.recv.wnd.lo) :
                     n \in DataLens}
    ELSE IF q.dst[2] \in DOMAIN pending
        THEN {PeerSegment(o.irs, 0, U(0), FlagsSyn, 0, o.wnd) : o \in PeerOpens}
             \cup {PeerSegment(U(1000), 1, U(1), FlagsAck, 0, 64240)}
    ELSE {PeerSegment(U(1000), 0, U(0), FlagsSyn, 0, 64240)}

\* the receive path alone: the peer's segments, the listener and the reader
NextRecv ==
    \/ \E port \in Ports : Bind(port)
    \/ RecvOther
    \/ \E q \in Quads : \E tcph \in PeerSegments(q) : Recv(q, tcph)
    \/ \E port \in Ports : ListenerAccept(port)
    \/ \E i \in DOMAIN streams, n \in BufLens : StreamRead(i, n)
    \/ \E i \in DOMAIN streams : StreamDrop(i)

SpecRecv == Init /\ [][NextRecv]_vars

\* the segments of PeerSegments(q) a peer with nothing to send emits at its next
\* sequence number: an ACK of send.una, of send.nxt or of what was never sent,
\* and a FIN that acknowledges send.nxt
PeerAcks(q) ==
    IF q \in DOMAIN connections
        THEN LET c == connections[q]
             IN  {PeerSegment(c.recv.irs, 1, a, FlagsAck, 0, c.recv.wnd.lo) :
                     a \in {c.send.una, c.send.nxt, wrapping_add(c.send.nxt, U(40))}}
                 \cup {PeerSegment(c.recv.irs, 1, c.send.nxt, FlagsFinAck, 0,
                                   c.recv.wnd.lo)}
    ELSE PeerSegments(q)

\* the send path alone: the local writer, the tick, the clock, the local close,
\* and a peer that sends no payload
NextSend ==
    \/ \E port \in Ports : Bind(port)
    \/ \E q \in Quads : \E tcph \in PeerAcks(q) : Recv(q, tcph)
    \/ \E port \in Ports : ListenerAccept(port)
    \/ \E i \in DOMAIN streams, n \in BufLens : StreamWrite(i, n)
    \/ \E q \in Quads : Tick(q)
    \/ \E q \in Quads : Close(q)
    \/ \E d \in Delays : Advance(d)

SpecSend == Init /\ [][NextSend]_vars

\* one past the highest sequence number the connection of q ever emitted
SentEnd(q) ==
    LET ends == {wrapping_add(e.seq, U(1)) : e \in tx[q]}
    IN  CHOOSE e \in ends : \A f \in ends : ULe(f, e)

\* the segment of a peer that has received everything emitted so far and
\* acknowledges all of it, with nothing of its own to send
PeerAckAll(q) ==
    LET c == connections[q]
    IN  PeerSegment(c.recv.irs, 1, SentEnd(q), FlagsAck, 0, c.recv.wnd.lo)

HonestSegments(q) ==
    IF q \in DOMAIN connections THEN {PeerAckAll(q)} ELSE PeerSegments(q)

\* the send path against a peer that only ever acknowledges, cumulatively, every
\* sequence number emitted to it
NextDrain ==
    \/ \E port \in Ports : Bind(port)
    \/ \E q \in Quads : \E tcph \in HonestSegments(q) : Recv(q, tcph)
    \/ \E port \in Ports : ListenerAccept(port)
    \/ \E i \in DOMAIN streams, n \in BufLens : StreamWrite(i, n)
    \/ \E q \in Quads : Tick(q)
    \/ \E d \in Delays : Advance(d)

SpecDrain == Init /\ [][NextDrain]_vars

\* the segments of PeerSegments(q) a peer sends at its next sequence number:
\* with or without payload, with or without FIN, acknowledging send.una or
\* send.nxt
ReadSegments(q) ==
    IF q \in DOMAIN connections
        THEN LET c == connections[q]
             IN  {PeerSegment(c.recv.irs, 1, a, fl, n, c.recv.wnd.lo) :
                     a \in {c.send.una, c.send.nxt}, fl \in {FlagsAck, FlagsFinAck},
                     n \in DataLens}
    ELSE PeerSegments(q)

\* the reader against the whole life of a connection: the peer's segments, the
\* local close and the tick that emits its FIN
NextRead ==
    \/ \E port \in Ports : Bind(port)
    \/ \E q \in Quads : \E tcph \in ReadSegments(q) : Recv(q, tcph)
    \/ \E port \in Ports : ListenerAccept(port)
    \/ \E i \in DOMAIN streams, n \in BufLens : StreamRead(i, n)
    \/ \E q \in Quads : Tick(q)
    \/ \E q \in Quads : Close(q)

SpecRead == Init /\ [][NextRead]_vars

\* the sizes of the writer's large buffers
BulkLens == {400, 1024}

\* the writer filling the send queue, the tick and a peer that acknowledges
NextWrite ==
    \/ \E port \in Ports : Bind(port)
    \/ \E q \in Quads : \E tcph \in PeerAcks(q) : Recv(q, tcph)
    \/ \E port \in Ports : ListenerAccept(port)
    \/ \E i \in DOMAIN streams, n \in BulkLens : StreamWriteBulk(i, n)
    \/ \E q \in Quads : Tick(q)

SpecWrite == Init /\ [][NextWrite]_vars

-----------------------------------------------------------------------------
(* the threads: packet_loop and one consumer that calls accept and read.  A
   thread that panics while it holds the manager lock poisons it: panicked is
   not "none", and every later lock().unwrap() and wait(..).unwrap() panics. *)

\* where the consumer stands
At(where, arg) == [pc EXCEPT !.consumer = where, !.arg = arg]

\* packet_loop takes a segment, handles it under the lock and releases the lock
\* (lib.rs:83-113); the notification is still to come
LoopRecv(q, tcph) ==
    /\ pc.loop = "recv"
    /\ packet_loop(q, tcph)
    /\ pc' = [pc EXCEPT !.loop =
                 IF panicked' /= "none" THEN "panicked"
                 ELSE IF q \notin DOMAIN connections
                     THEN (IF q \in DOMAIN connections' THEN "notify_pending" ELSE "recv")
                 ELSE IF "READ" \in availablity(connections'[q]) THEN "notify_rcv"
                 ELSE "recv"]

\* pending_var.notify_all() (lib.rs:112) and rcv_var.notify_all() (lib.rs:93)
LoopNotify ==
    /\ pc.loop \in {"notify_pending", "notify_rcv"}
    /\ pc' = [pc EXCEPT
                 !.loop = "recv",
                 !.consumer = IF pc.loop = "notify_pending" /\ @ = "accept_wait"
                                  THEN "accept_woken"
                              ELSE IF pc.loop = "notify_rcv" /\ @ = "read_wait"
                                  THEN "read_woken"
                              ELSE @]
    /\ UNCHANGED <<overflow_checks, terminate, connections, pending, streams, now, advances,
                   npackets, nwrites, wire, delivered, panicked, call, tx, readout>>

\* the consumer accepts at most two Streams
MaxStreams == 2

\* TcpListener::accept with the lock held (lib.rs:273-287): pop the front Quad
\* and return its Stream, or wait on pending_var
accept_locked(port) ==
    IF panicked /= "none"
        THEN /\ pc' = At("panicked", <<>>)
             /\ UNCHANGED <<pending, streams>>
    ELSE IF pending[port] /= <<>>
        THEN /\ pending' = [pending EXCEPT ![port] = Tail(@)]
             /\ streams' = Append(streams, Head(pending[port]))
             /\ pc' = At("idle", <<>>)
    ELSE /\ pc' = At("accept_wait", <<port>>)
         /\ UNCHANGED <<pending, streams>>

\* the consumer calls accept on the listener of port
AcceptCall(port) ==
    /\ pc.consumer = "idle"
    /\ port \in DOMAIN pending
    /\ Len(streams) < MaxStreams
    /\ accept_locked(port)
    /\ UNCHANGED <<overflow_checks, terminate, connections, now, advances, npackets, nwrites,
                   wire, delivered, panicked, call, tx, readout>>

\* the consumer, notified, has the lock again: pending_var.wait(m).unwrap()
AcceptWoken ==
    /\ pc.consumer = "accept_woken"
    /\ accept_locked(pc.arg[1])
    /\ UNCHANGED <<overflow_checks, terminate, connections, now, advances, npackets, nwrites,
                   wire, delivered, panicked, call, tx, readout>>

\* Read for TcpStream with the lock held (lib.rs:178-204): return, or wait on
\* rcv_var
read_locked(i, n) ==
    IF panicked /= "none"
        THEN /\ pc' = At("panicked", <<>>)
             /\ UNCHANGED <<connections, readout>>
    ELSE LET r == stream_read(connections, streams[i], n)
         IN  /\ connections' = r.connections
             /\ readout' = [readout EXCEPT ![streams[i]] = @ \o r.buf]
             /\ pc' = IF r.ret = "wait" THEN At("read_wait", <<i, n>>) ELSE At("idle", <<>>)

\* the consumer calls read with an n-byte buffer on stream i
ReadCall(i, n) ==
    /\ pc.consumer = "idle"
    /\ i \in DOMAIN streams
    /\ read_locked(i, n)
    /\ UNCHANGED <<overflow_checks, terminate, pending, streams, now, advances, npackets, nwrites,
                   wire, delivered, panicked, call, tx>>

\* the consumer, notified, has the lock again: rcv_var.wait(cm).unwrap()
ReadWoken ==
    /\ pc.consumer = "read_woken"
    /\ read_locked(pc.arg[1], pc.arg[2])
    /\ UNCHANGED <<overflow_checks, terminate, pending, streams, now, advances, npackets, nwrites,
                   wire, delivered, panicked, call, tx>>

\* the segments the peers of two Quads of one port send: their SYNs; to a
\* connection, two bytes in order, and its SYN once more with a payload
WakeQuads == {Quad(40000, 9000), Quad(40001, 9000)}
WakeSegments(q) ==
    IF q \in DOMAIN connections
        THEN LET c == connections[q]
             IN  {PeerSegment(c.recv.irs, 1, c.send.nxt, FlagsAck, 2, c.recv.wnd.lo),
                  PeerSegment(c.recv.irs, 0, U(0), FlagsSyn, 2, c.recv.wnd.lo)}
    ELSE {PeerSegment(U(1000), 0, U(0), FlagsSyn, 0, 64240)}

NextWake ==
    \/ \E port \in Ports : Bind(port)
    \/ \E q \in WakeQuads : \E tcph \in WakeSegments(q) : LoopRecv(q, tcph)
    \/ LoopNotify
    \/ \E port \in Ports : AcceptCall(port)
    \/ AcceptWoken
    \/ \E i \in DOMAIN streams, n \in BufLens : ReadCall(i, n)
    \/ ReadWoken

\* the scheduler runs a thread that can run: packet_loop reaches its notify_all,
\* a notified consumer gets the lock back
SpecWake ==
    /\ Init
    /\ [][NextWake]_vars
    /\ WF_vars(LoopNotify)
    /\ WF_vars(AcceptWoken)
    /\ WF_vars(ReadWoken)

\* nic.recv returns no bytes or an error, and packet_loop returns (lib.rs:51-54)
LoopEnd ==
    /\ pc.loop = "recv"
    /\ pc' = [pc EXCEPT !.loop = "exited"]
    /\ UNCHANGED <<overflow_checks, connections, pending, streams, now, advances,
                   npackets, nwrites, wire, delivered, panicked, call, tx, readout,
                   terminate>>

\* Drop for Interface up to the join, lib.rs:36-38: lock().unwrap(), set terminate,
\* release the table reference
InterfaceDrop ==
    /\ pc.iface = "live"
    /\ IF panicked /= "none"
          THEN /\ pc' = [pc EXCEPT !.iface = "panicked"]
               /\ UNCHANGED terminate
          ELSE /\ pc' = [pc EXCEPT !.iface = "joining"]
               /\ terminate' = TRUE
    /\ UNCHANGED <<overflow_checks, connections, pending, streams, now, advances,
                   npackets, nwrites, wire, delivered, panicked, call, tx, readout>>

\* the join of Drop for Interface, lib.rs:39-43: it returns when the packet_loop
\* thread has ended, and its unwrap panics when that thread panicked
InterfaceJoin ==
    /\ pc.iface = "joining"
    /\ pc.loop \in {"exited", "panicked"}
    /\ pc' = [pc EXCEPT !.iface = IF pc.loop = "exited" THEN "joined" ELSE "panicked"]
    /\ UNCHANGED <<overflow_checks, connections, pending, streams, now, advances,
                   npackets, nwrites, wire, delivered, panicked, call, tx, readout,
                   terminate>>

\* the life of the Interface: binds while it is owned, the frames that arrive,
\* the end of the device, the drop
NextTeardown ==
    \/ \E port \in Ports : pc.iface = "live" /\ Bind(port)
    \/ \E q \in WakeQuads : \E tcph \in WakeSegments(q) : LoopRecv(q, tcph)
    \/ LoopNotify
    \/ LoopEnd
    \/ InterfaceDrop
    \/ InterfaceJoin

\* the scheduler runs a thread that can run; no frame has to arrive
SpecTeardown ==
    /\ Init
    /\ [][NextTeardown]_vars
    /\ WF_vars(LoopNotify)
    /\ WF_vars(InterfaceJoin)

-----------------------------------------------------------------------------
\* the segments that matter to the connection table: to a connection, the
\* peer's SYN once more and the ACK of our SYN; otherwise those of PeerSegments
TableSegments(q) ==
    IF q \in DOMAIN connections
        THEN LET c == connections[q]
             IN  {PeerSegment(c.recv.irs, 0, U(0), FlagsSyn, 0, c.recv.wnd.lo),
                  PeerSegment(c.recv.irs, 1, c.send.nxt, FlagsAck, 0, c.recv.wnd.lo)}
    ELSE PeerSegments(q)

\* the connection table alone: listeners come and go, peers open connections,
\* streams are handed out and dropped
NextTable ==
    \/ \E port \in TablePorts : Bind(port)
    \/ \E q \in TableQuads : \E tcph \in TableSegments(q) : Recv(q, tcph)
    \/ \E port \in TablePorts : ListenerAccept(port)
    \/ \E port \in TablePorts : ListenerDrop(port)
    \/ \E i \in DOMAIN streams : StreamShutdown(i)
    \/ \E i \in DOMAIN streams : StreamDrop(i)

SpecTable == Init /\ [][NextTable]_vars

-----------------------------------------------------------------------------
(* the sequence-number functions of tcp.rs on their own *)

\* u32 values around 0, around the constant of wrapping_lt, around 2^31 and
\* around 2^32
Samples == {U(0), U(1), U(29), U(30), U(100), U(1000),
            U32(32767, Limb - 1), U32(32768, 0), U32(32768, 1),
            U32(Limb - 1, Limb - 30), MaxU32}
Windows == {0, 10, 64240}
SegLens == {0, 1, 2}

\* the arguments are drawn, nothing else exists
InitFn ==
    /\ overflow_checks \in BOOLEAN
    /\ connections = Empty
    /\ pending = Empty
    /\ streams = <<>>
    /\ now = 0
    /\ advances = 0
    /\ npackets = 0
    /\ nwrites = 0
    /\ wire = <<>>
    /\ delivered = [q \in Quads \cup TableQuads |-> <<>>]
    /\ panicked = "none"
    /\ tx = [q \in Quads \cup TableQuads |-> {}]
    /\ readout = [q \in Quads \cup TableQuads |-> <<>>]
    /\ pc = [loop |-> "recv", consumer |-> "idle", arg |-> <<>>, iface |-> "live"]
    /\ terminate = FALSE
    /\ \E a \in Samples, b \in Samples, w \in Windows, n \in SegLens :
           call = [fn |-> "none", args |-> [a |-> a, b |-> b, w |-> w, n |-> n],
                   ret |-> "none"]

\* wrapping_lt(lhs = a, rhs = b)
CallWrappingLt ==
    /\ call.fn = "none"
    /\ call' = [call EXCEPT !.fn = "wrapping_lt",
                            !.ret = wrapping_lt(call.args.a, call.args.b)]
    /\ UNCHANGED <<overflow_checks, terminate, connections, pending, streams, now, advances,
                   npackets, nwrites, wire, delivered, panicked, tx, readout, pc>>

\* the valid segment check with recv.nxt = a, recv.wnd = w, seqn = b, slen = n
CallSegmentOkay ==
    /\ call.fn = "none"
    /\ call' = [call EXCEPT !.fn = "segment_okay",
                            !.ret = segment_okay(call.args.a, U(call.args.w),
                                                 call.args.b, call.args.n,
                                                 overflow_checks)]
    /\ UNCHANGED <<overflow_checks, terminate, connections, pending, streams, now, advances,
                   npackets, nwrites, wire, delivered, panicked, tx, readout, pc>>

NextFn ==
    \/ CallWrappingLt
    \/ CallSegmentOkay

SpecFn == InitFn /\ [][NextFn]_vars

-----------------------------------------------------------------------------
(* the claims *)

\* 2^31
Half == U32(32768, 0)

\* a < b in the 32-bit wrapping order: (a - b) mod 2^32 > 2^31
SeqLt(a, b) == ULt(Half, wrapping_sub(a, b))

\* C8: for all 32-bit a and b, wrapping_lt(a, b) is true iff
\* (a - b) mod 2^32 > 2^31.
C8_wrapping_lt_half_range ==
    call.fn = "wrapping_lt" => (call.ret <=> SeqLt(call.args.a, call.args.b))

\* the RFC 793 acceptance table, < read as SeqLt
Rfc793Acceptable(recv_nxt, recv_wnd, seqn, slen) ==
    LET lo == wrapping_sub(recv_nxt, U(1))
        wend == wrapping_add(recv_nxt, recv_wnd)
        last_seq == wrapping_sub(wrapping_add(seqn, U(slen)), U(1))
        inside(x) == SeqLt(lo, x) /\ SeqLt(x, wend)
    IN  IF slen = 0
            THEN (IF recv_wnd = U(0) THEN seqn = recv_nxt ELSE inside(seqn))
        ELSE IF recv_wnd = U(0) THEN FALSE
        ELSE inside(seqn) \/ inside(last_seq)

\* C7: for every (recv.nxt, recv.wnd, seq, slen) the valid segment check accepts
\* exactly the segments the RFC 793 table accepts under the 32-bit wrapping order.
C7_acceptance_is_rfc793 ==
    call.fn = "segment_okay" =>
        (call.ret = "okay" <=> Rfc793Acceptable(call.args.a, U(call.args.w),
                                                call.args.b, call.args.n))

Range(f) == {f[i] : i \in DOMAIN f}

\* a <= b in the 32-bit wrapping order
SeqLe(a, b) == ~SeqLt(b, a)

\* the valid segment check lets tcph through, and so does the RFC 793 table
Acceptable(c, tcph) ==
    /\ segment_okay(c.recv.nxt, c.recv.wnd, tcph.seq, seg_len(tcph), overflow_checks)
           = "okay"
    /\ Rfc793Acceptable(c.recv.nxt, c.recv.wnd, tcph.seq, seg_len(tcph))

\* C1: a connection created by a SYN in SyncRcvd, whose SYN-ACK carried seq = iss
\* and ack = peer_seq + 1, that receives an acceptable ACK-flagged segment with
\* send.una - 1 < ack <= send.nxt is in Estab when on_packet returns, and its
\* Quad is the one the listener's accept returns.
C1_handshake_establishes ==
    \A q \in DOMAIN connections : \A tcph \in PeerSegments(q) :
        LET c == connections[q]
            r == on_packet(c, tcph, now, overflow_checks)
        IN  (/\ panicked = "none"
             /\ c.state = SyncRcvd
             /\ c.recv.nxt = wrapping_add(c.recv.irs, U(1))
             /\ c.send.una = c.send.iss
             /\ tcph.ackf
             /\ Acceptable(c, tcph)
             /\ SeqLt(wrapping_sub(c.send.una, U(1)), tcph.ack)
             /\ SeqLe(tcph.ack, c.send.nxt))
            => /\ r.panic = "none"
               /\ r.c.state = Estab
               /\ q.dst[2] \in DOMAIN pending
               /\ q \in Range(pending[q.dst[2]]) \cup Range(streams)

\* C2: a connection is in FinWait1 or later, or has the FIN flag set on its
\* header prototype, or has emitted a FIN segment, only if the local close was
\* requested; on_packet alone never moves a connection into FinWait1.
C2_fin_deferred_until_close ==
    /\ \A q \in DOMAIN connections :
           (have_sent_fin(connections[q]) \/ connections[q].tcp.fin)
               => connections[q].closed
    /\ (\E seg \in Range(wire) : seg.fin)
           => \E q \in DOMAIN connections : connections[q].closed
    /\ \A q \in DOMAIN connections : \A tcph \in PeerSegments(q) :
           (panicked = "none" /\ connections[q].state \in {SyncRcvd, Estab})
               => on_packet(connections[q], tcph, now, overflow_checks).c.state
                      \in {SyncRcvd, Estab}

\* C3: on_packet on an acceptable ACK-flagged segment with payload, in Estab,
\* FinWait1 or FinWait2, with skip = recv.nxt - seq, appends payload[skip..] to
\* incoming, advances recv.nxt by (|payload| - skip) + (1 if FIN), and emits a
\* bare ACK whose acknowledgment number is the new recv.nxt.
C3_data_advances_recv_nxt ==
    \A q \in DOMAIN connections : \A tcph \in PeerSegments(q) :
        LET c == connections[q]
            r == on_packet(c, tcph, now, overflow_checks)
            n == Len(tcph.data)
            skip == wrapping_sub(c.recv.nxt, tcph.seq)
        IN  (/\ panicked = "none"
             /\ c.state \in {Estab, FinWait1, FinWait2}
             /\ tcph.ackf /\ ~tcph.syn
             /\ n > 0
             /\ Acceptable(c, tcph)
             /\ ULe(skip, U(n)))
            => /\ r.panic = "none"
               /\ r.c.incoming = c.incoming \o SubSeq(tcph.data, skip.lo + 1, n)
               /\ r.c.recv.nxt =
                      wrapping_add(c.recv.nxt,
                                   U((n - skip.lo) + (IF tcph.fin THEN 1 ELSE 0)))
               /\ \E seg \in Range(r.out) :
                      seg.ackf /\ seg.data = <<>> /\ seg.ack = r.c.recv.nxt

\* C4: the bytes ever appended to incoming are, in order, the prefix of the
\* peer's byte stream that starts at irs + 1, none twice and none skipped, and
\* every one of them has a sequence number below recv.nxt.
C4_in_order_exactly_once ==
    \A q \in DOMAIN connections :
        LET c == connections[q]
            d == delivered[q]
        IN  /\ \A k \in DOMAIN d : d[k] = StreamByte(k - 1)
            /\ SeqLe(wrapping_add(c.recv.irs, U(1 + Len(d))), c.recv.nxt)

\* C5: a data segment whose seq lies beyond recv.nxt leaves incoming and
\* recv.nxt unchanged and is answered with an ACK carrying ack = recv.nxt;
\* on_packet completes normally.
C5_segment_beyond_recv_nxt ==
    \A q \in DOMAIN connections : \A tcph \in PeerSegments(q) :
        LET c == connections[q]
            r == on_packet(c, tcph, now, overflow_checks)
        IN  (/\ panicked = "none"
             /\ c.state \in {Estab, FinWait1, FinWait2}
             /\ tcph.ackf /\ ~tcph.syn /\ ~tcph.fin
             /\ tcph.data /= <<>>
             /\ SeqLt(c.recv.nxt, tcph.seq))
            => /\ r.panic = "none"
               /\ r.c.incoming = c.incoming
               /\ r.c.recv.nxt = c.recv.nxt
               /\ \E seg \in Range(r.out) : seg.ackf /\ seg.ack = c.recv.nxt

\* C6: a segment that fails the acceptance test causes exactly one bare ACK
\* (no SYN, no FIN, seq = send.nxt, ack = recv.nxt) and leaves recv.nxt,
\* incoming, state, send.una, send.nxt and unacked unchanged.
C6_unacceptable_bare_ack ==
    \A q \in DOMAIN connections : \A tcph \in PeerSegments(q) :
        LET c == connections[q]
            r == on_packet(c, tcph, now, overflow_checks)
        IN  (/\ panicked = "none"
             /\ segment_okay(c.recv.nxt, c.recv.wnd, tcph.seq, seg_len(tcph),
                             overflow_checks) = "not_okay")
            => /\ r.panic = "none"
               /\ Len(r.out) = 1
               /\ r.out[1].ackf /\ ~r.out[1].syn /\ ~r.out[1].fin
               /\ r.out[1].data = <<>>
               /\ r.out[1].seq = c.send.nxt
               /\ r.out[1].ack = c.recv.nxt
               /\ r.c.recv.nxt = c.recv.nxt
               /\ r.c.incoming = c.incoming
               /\ r.c.state = c.state
               /\ r.c.send.una = c.send.una
               /\ r.c.send.nxt = c.send.nxt
               /\ r.c.unacked = c.unacked

\* C9: in every reachable state of a connection, send.una <= send.nxt <=
\* send.una + send.wnd in the wrapping order, so that on_tick's
\* send.wnd - (send.nxt - send.una) does not underflow.
C9_send_window_order ==
    \A q \in DOMAIN connections :
        LET c == connections[q]
        IN  /\ SeqLe(c.send.una, c.send.nxt)
            /\ SeqLe(c.send.nxt, wrapping_add(c.send.una, c.send.wnd))
            /\ ULe(wrapping_sub(c.send.nxt, c.send.una), c.send.wnd)

\* C10: in every reachable state of a connection, |unacked| >= send.nxt -
\* send.una, so that on_tick's |unacked| - (send.nxt - send.una) does not
\* underflow, also while the SYN or the FIN is in flight and after a
\* retransmission.
C10_unacked_covers_in_flight ==
    \A q \in DOMAIN connections :
        LET c == connections[q]
        IN  ULe(wrapping_sub(c.send.nxt, c.send.una), U(Len(c.unacked)))

\* the slots <<port, position>> of the pending queues
PendingSlots == UNION {{<<p, i>> : i \in DOMAIN pending[p]} : p \in DOMAIN pending}

\* C11: in every reachable state a Quad appears at most once across the pending
\* queues, and every Quad queued on a port is a key of connections.
C11_pending_quads_once_and_known ==
    /\ \A s \in PendingSlots : pending[s[1]][s[2]] \in DOMAIN connections
    /\ \A s, t \in PendingSlots :
           pending[s[1]][s[2]] = pending[t[1]][t[2]] => s = t

\* two Quads are queued on one port, one is held by no one else, and the peer
\* of a queued Quad has sent its SYN again
C11_witness ==
    /\ \E p \in DOMAIN pending : Len(pending[p]) = 2
    /\ npackets = 3
    /\ panicked = "none"

\* every byte the local writer has handed over has been emitted to the Quad q
AllEmitted(q) ==
    /\ nwrites > 0
    /\ \A k \in 0..(nwrites - 1) : \E e \in tx[q] : e.what = StreamByte(k)

\* C12: once the ticks have emitted every queued byte, the acknowledgment of a
\* peer that acknowledges every emitted sequence number leaves the connection
\* drained: nothing unacknowledged, send.una = send.nxt
C12_drain_law ==
    \A q \in DOMAIN connections :
        LET r == on_packet(connections[q], PeerAckAll(q), now, overflow_checks)
        IN  (panicked = "none" /\ AllEmitted(q))
                => /\ r.panic = "none"
                   /\ r.c.unacked = <<>>
                   /\ r.c.send.una = r.c.send.nxt

\* what C13 says a replay leaves alone
Core(c) == <<c.state, c.recv.nxt, c.incoming, c.send.una, c.send.nxt, c.unacked>>

\* on_packet took the payload of tcph into incoming and answered with an ACK
ReceivedAndAcked(c, tcph, r) ==
    /\ r.panic = "none"
    /\ tcph.data /= <<>>
    /\ Len(r.c.incoming) > Len(c.incoming)
    /\ r.out /= <<>>

\* C13: a peer segment that on_packet has received and acknowledged, delivered
\* to on_packet once more, changes none of state, recv.nxt, incoming, send.una,
\* send.nxt, unacked
C13_replay_idempotent ==
    \A q \in DOMAIN connections : \A tcph \in PeerSegments(q) :
        LET c == connections[q]
            r1 == on_packet(c, tcph, now, overflow_checks)
            r2 == on_packet(r1.c, tcph, now, overflow_checks)
        IN  (panicked = "none" /\ ReceivedAndAcked(c, tcph, r1))
                => /\ r2.panic = "none"
                   /\ Core(r2.c) = Core(r1.c)

\* the segment seg carries exactly the bytes first emitted at its sequence numbers
SameAsEmitted(q, seg) ==
    \A i \in DOMAIN seg.data :
        [seq |-> wrapping_add(seg.seq, U(i - 1)), what |-> seg.data[i]] \in tx[q]

\* C14: a tick on which the retransmit condition holds re-emits, at send.una,
\* the head of unacked, the bytes first emitted at those sequence numbers; and
\* when the peer has acknowledged everything sent, send_times is empty
C14_retransmit_and_send_times ==
    \A q \in DOMAIN connections :
        LET c == connections[q]
            r == on_tick(c, now, overflow_checks)
        IN  panicked = "none"
                => /\ (should_retransmit(c, now) /\ r.panic = "none" /\ c.unacked /= <<>>)
                        => /\ Len(r.out) = 1
                           /\ r.out[1].seq = c.send.una
                           /\ r.out[1].data
                                 = SubSeq(c.unacked, 1, MinLen(Len(c.unacked), c.send.wnd))
                           /\ SameAsEmitted(q, r.out[1])
                   /\ (c.send.una = c.send.nxt /\ c.unacked = <<>>)
                        => c.timer.send_tiems = {}

\* in the table conns, the connection of q is marked closed and its next tick
\* emits a FIN at send.nxt
ClosedAndFinNext(conns, q) ==
    /\ q \in DOMAIN conns
    /\ conns[q].closed
    /\ LET r == on_tick(conns[q], now, overflow_checks)
       IN  /\ r.panic = "none"
           /\ Len(r.out) = 1
           /\ r.out[1].fin
           /\ r.out[1].seq = conns[q].send.nxt

\* C15: after Stream.shutdown, and after the drop of the Stream, the connection
\* is in the table, marked closed, and the next on_tick emits a FIN at send.nxt
C15_local_close_sends_fin ==
    \A i \in DOMAIN streams :
        LET q == streams[i]
        IN  (panicked = "none" /\ q \in DOMAIN connections
                /\ connections[q].state \notin {FinWait2, TimeWait})
                => /\ ClosedAndFinNext(stream_shutdown(connections, q).connections, q)
                   /\ ClosedAndFinNext(stream_drop(connections, q), q)

\* C16: every bind step leaves connections alone; on a port already in pending
\* it fails with addr-in-use and leaves pending, with the Quads queued on the
\* port, as it was, so the first listener accepts as before; on an unbound port
\* it succeeds and registers an empty queue, the other ports untouched
C16_double_bind ==
    [][\A port \in TablePorts :
          Bind(port) =>
              /\ connections' = connections
              /\ streams' = streams
              /\ panicked' = panicked
              /\ IF port \in DOMAIN pending
                    THEN /\ bind(pending, port).ret = "AddrInUse"
                         /\ pending' = pending
                    ELSE /\ bind(pending, port).ret = "Ok"
                         /\ DOMAIN pending' = DOMAIN pending \cup {port}
                         /\ pending'[port] = <<>>
                         /\ \A p \in DOMAIN pending : pending'[p] = pending[p]]_vars

\* a second bind of a port whose listener has a Quad queued
C16_witness ==
    /\ panicked = "none"
    /\ \E port \in DOMAIN pending :
           /\ pending[port] /= <<>>
           /\ bind(pending, port).ret = "AddrInUse"
    /\ \E port \in TablePorts : port \notin DOMAIN pending

\* C17: Stream.read into an n-byte buffer fails with aborted when the Quad is
\* not in the table; returns 0 bytes when the receive side is closed and
\* incoming is empty; when incoming is non-empty returns its first
\* min(n, |incoming|) bytes and leaves the rest, nothing else touched; otherwise
\* waits.  The bytes returned by the reads so far, followed by incoming, are the
\* bytes appended to incoming
C17_stream_read ==
    /\ \A q \in DOMAIN connections : readout[q] \o connections[q].incoming = delivered[q]
    /\ \A q \in Quads, n \in BufLens :
           LET r == stream_read(connections, q, n)
           IN  IF q \notin DOMAIN connections
                   THEN r.ret = "ConnectionAborted" /\ r.connections = connections
               ELSE LET c == connections[q]
                        k == IF n < Len(c.incoming) THEN n ELSE Len(c.incoming)
                    IN  IF c.state = TimeWait /\ c.incoming = <<>>
                            THEN r.ret = "Ok" /\ r.buf = <<>> /\ r.connections = connections
                        ELSE IF c.incoming /= <<>>
                            THEN /\ r.ret = "Ok"
                                 /\ Len(r.buf) = k
                                 /\ r.buf \o r.connections[q].incoming = c.incoming
                                 /\ r.connections
                                      = [connections EXCEPT ![q].incoming = r.connections[q].incoming]
                        ELSE r.ret = "wait" /\ r.connections = connections

\* Stream.read has returned the two bytes of a connection whose receive side
\* is closed, and incoming is empty
C17_witness ==
    \E q \in DOMAIN connections :
        /\ panicked = "none"
        /\ streams /= <<>>
        /\ Len(readout[q]) = 2
        /\ connections[q].incoming = <<>>
        /\ connections[q].state = TimeWait

\* C18: Stream.write(buf) fails with would-block and changes nothing when
\* |unacked| >= 1024; otherwise it appends the first min(|buf|, 1024 - |unacked|)
\* bytes of buf to the tail of unacked, touches nothing else and returns that
\* count; and |unacked| <= 1024 in every reachable state
C18_stream_write_bounded ==
    \A q \in DOMAIN connections :
        LET c == connections[q]
        IN  /\ Len(c.unacked) <= 1024
            /\ \A n \in BulkLens \cup BufLens :
                   LET r == stream_write(connections, q, WriterBuf(n))
                       room == 1024 - Len(c.unacked)
                       k == IF n < room THEN n ELSE room
                   IN  IF Len(c.unacked) >= 1024
                           THEN r.ret = "WouldBlock" /\ r.n = 0 /\ r.connections = connections
                       ELSE /\ r.ret = "Ok"
                            /\ r.n = k
                            /\ r.connections
                                 = [connections EXCEPT
                                       ![q].unacked = c.unacked \o SubSeq(WriterBuf(n), 1, k)]

\* the send queue is full after a write that took only part of its buffer
C18_witness ==
    \E q \in DOMAIN connections :
        /\ panicked = "none"
        /\ streams /= <<>>
        /\ Len(connections[q].unacked) = 1024
        /\ nwrites > 1024

\* the Quads queued on port
Queued(port) == {pending[port][i] : i \in DOMAIN pending[port]}

\* C20: the drop of a Listener completes without a panic, also when Quads are
\* still queued; it removes its port from pending, so that a bind of the port
\* succeeds again; it removes the connection of every Quad still queued on the
\* port from the table; the other ports and the other connections are as before
C20_listener_drop_aborts_queued ==
    \A port \in DOMAIN pending :
        LET r == listener_drop(connections, pending, port)
        IN  panicked = "none"
                => /\ r.panic = "none"
                   /\ port \notin DOMAIN r.pending
                   /\ bind(r.pending, port).ret = "Ok"
                   /\ \A p \in DOMAIN pending \ {port} :
                          p \in DOMAIN r.pending /\ r.pending[p] = pending[p]
                   /\ DOMAIN r.connections = DOMAIN connections \ Queued(port)
                   /\ \A q \in DOMAIN r.connections : r.connections[q] = connections[q]

\* C19: a consumer waiting in Listener.accept on a port whose queue holds a Quad
\* comes to return a Stream; a consumer waiting in Stream.read on a connection
\* with bytes in incoming, or with its receive side closed, comes to return; and
\* every Stream handed out is that of the oldest Quad queued on its port
C19_no_lost_wakeup ==
    /\ (pc.consumer = "accept_wait" /\ pending[pc.arg[1]] /= <<>>)
           ~> (pc.consumer = "idle")
    /\ (/\ pc.consumer = "read_wait"
        /\ streams[pc.arg[1]] \in DOMAIN connections
        /\ "READ" \in availablity(connections[streams[pc.arg[1]]]))
           ~> (pc.consumer = "idle")
    /\ [][Len(streams') > Len(streams)
            => \E port \in DOMAIN pending :
                  /\ pending[port] /= <<>>
                  /\ streams' = Append(streams, Head(pending[port]))
                  /\ pending' = [pending EXCEPT ![port] = Tail(@)]]_vars

\* C21: once the drop of the Interface has set terminate, the packet_loop thread
\* comes to end and the join of the drop returns, whether or not a frame arrives
C21_teardown_terminates == terminate ~> (pc.iface = "joined")

\* C22: no thread has panicked, and in the state reached no segment of the peer,
\* no tick and no drop of a Listener panics: on_packet, accept, on_tick and the
\* drop run to completion
C22_no_panic ==
    /\ panicked = "none"
    /\ \A q \in Quads :
           \A tcph \in PeerSegments(q) :
               IF q \in DOMAIN connections
                   THEN on_packet(connections[q], tcph, now, overflow_checks).panic = "none"
               ELSE accept(tcph, now, overflow_checks).panic = "none"
    /\ \A q \in DOMAIN connections :
           on_tick(connections[q], now, overflow_checks).panic = "none"
    /\ \A port \in DOMAIN pending :
           listener_drop(connections, pending, port).panic = "none"

\* C23: in Estab, FinWait1 and FinWait2 an acceptable ACK-flagged segment sets
\* send.una to its ack when send.una <= ack <= send.nxt + 1 in the wrapping
\* order, both ends included; any other ack leaves send.una and unacked as they
\* were
C23_ack_window ==
    \A q \in DOMAIN connections : \A tcph \in PeerSegments(q) :
        LET c == connections[q]
            r == on_packet(c, tcph, now, overflow_checks)
            inside == /\ SeqLe(c.send.una, tcph.ack)
                      /\ SeqLe(tcph.ack, wrapping_add(c.send.nxt, U(1)))
        IN  (/\ panicked = "none"
             /\ c.state \in {Estab, FinWait1, FinWait2}
             /\ tcph.ackf
             /\ Acceptable(c, tcph)
             /\ r.panic = "none")
                => IF inside THEN r.c.send.una = tcph.ack
                   ELSE r.c.send.una = c.send.una /\ r.c.unacked = c.unacked

\* the peer's bare ACK of everything below a
PeerAckOf(c, a) == PeerSegment(c.recv.irs, 1, a, FlagsAck, 0, c.recv.wnd.lo)

\* C24: on_packet leaves a connection of FinWait1 in FinWait2 only with closed_at
\* set and send.una = closed_at + 1; when the connection has emitted its FIN, at
\* closed_at, the peer's ACK of closed_at + 1 takes it to FinWait2; an ACK of
\* no more than closed_at leaves it in FinWait1
C24_fin_ack_detection ==
    \A q \in DOMAIN connections :
        LET c == connections[q]
        IN  (panicked = "none" /\ c.state = FinWait1)
                => /\ \A tcph \in PeerAcks(q) :
                          LET r == on_packet(c, tcph, now, overflow_checks)
                          IN  r.c.state = FinWait2
                                  => /\ is_some(r.c.closed_at)
                                     /\ r.c.send.una = wrapping_add(unwrap(r.c.closed_at), U(1))
                   /\ (/\ is_some(c.closed_at)
                       /\ [seq |-> unwrap(c.closed_at), what |-> FIN_MARK] \in tx[q])
                          => LET fin_seq == unwrap(c.closed_at)
                                 acked == on_packet(c, PeerAckOf(c, wrapping_add(fin_seq, U(1))),
                                                    now, overflow_checks)
                                 before == on_packet(c, PeerAckOf(c, fin_seq), now,
                                                     overflow_checks)
                             IN  /\ acked.panic = "none"
                                 /\ acked.c.state = FinWait2
                                 /\ before.c.state = FinWait1

\* C25: in FinWait2 an acceptable in-order ACK-flagged segment with FIN leaves
\* recv.nxt one past the FIN (seq + payload length + 1), emits exactly one ACK
\* whose ack is that recv.nxt, and leaves the connection in TimeWait, where a read
\* returns 0 once incoming is empty
C25_peer_fin_in_fin_wait2 ==
    \A q \in DOMAIN connections : \A tcph \in ReadSegments(q) :
        LET c == connections[q]
            r == on_packet(c, tcph, now, overflow_checks)
            past_fin == wrapping_add(tcph.seq, U(Len(tcph.data) + 1))
            after == [connections EXCEPT ![q] = [r.c EXCEPT !.incoming = <<>>]]
        IN  (/\ panicked = "none"
             /\ c.state = FinWait2
             /\ tcph.ackf /\ tcph.fin /\ ~tcph.syn
             /\ tcph.seq = c.recv.nxt
             /\ Acceptable(c, tcph))
            => /\ r.panic = "none"
               /\ r.c.recv.nxt = past_fin
               /\ Len(r.out) = 1
               /\ r.out[1].ackf /\ r.out[1].ack = past_fin
               /\ r.c.state = TimeWait
               /\ \A n \in BufLens :
                      LET rd == stream_read(after, q, n)
                      IN  rd.ret = "Ok" /\ rd.buf = <<>>

\* the place of a state on the path SyncRcvd, Estab, FinWait1, FinWait2, TimeWait
StateRank(st) ==
    CASE st = SyncRcvd -> 0 [] st = Estab -> 1 [] st = FinWait1 -> 2
      [] st = FinWait2 -> 3 [] st = TimeWait -> 4

\* C26: on_packet, on_tick and close never take a connection to an earlier state
\* of the path SyncRcvd, Estab, FinWait1, FinWait2, TimeWait; each leaves a
\* connection of TimeWait in TimeWait; and on_tick in FinWait2 or TimeWait emits
\* nothing and changes no field
C26_state_moves_forward ==
    \A q \in DOMAIN connections :
        LET c == connections[q]
            tick == on_tick(c, now, overflow_checks)
        IN  /\ \A tcph \in PeerSegments(q) :
                   StateRank(on_packet(c, tcph, now, overflow_checks).c.state)
                       >= StateRank(c.state)
            /\ StateRank(tick.c.state) >= StateRank(c.state)
            /\ StateRank(close(c).c.state) >= StateRank(c.state)
            /\ c.state \in {FinWait2, TimeWait}
                   => tick.out = <<>> /\ tick.c = c /\ tick.panic = "none"

\* a connection that went the whole path: closed locally, its FIN emitted, in
\* TimeWait
C26_witness ==
    \E q \in DOMAIN connections :
        /\ panicked = "none"
        /\ connections[q].state = TimeWait
        /\ connections[q].closed
        /\ \E e \in tx[q] : e.what = FIN_MARK

\* the sequence number of byte k of the local writer's stream
SeqOfByte(k) == wrapping_add(U(iss), U(1 + k))

\* the bytes of the local writer's stream handed over so far whose sequence
\* number is a or later, in order
QueuedFrom(a) ==
    LET first == CHOOSE j \in 0..nwrites :
                     /\ \A k \in 0..(j - 1) : ULt(SeqOfByte(k), a)
                     /\ \A k \in j..(nwrites - 1) : ULe(a, SeqOfByte(k))
    IN  [i \in 1..(nwrites - first) |-> StreamByte(first + i - 1)]

\* C27: byte k of the local writer's stream is emitted only at sequence number
\* iss + 1 + k, in first emissions and retransmissions alike, also when it was
\* queued or a tick ran before the SYN was acknowledged; and an ACK of a, between
\* send.una and send.nxt, leaves in unacked exactly the bytes at a or later
C27_send_sequence_mapping ==
    \A q \in DOMAIN connections :
        LET c == connections[q]
        IN  panicked = "none"
                => /\ \A e \in tx[q] :
                          e.what < SYN_MARK
                              => \E k \in 0..(nwrites - 1) :
                                     e.what = StreamByte(k) /\ e.seq = SeqOfByte(k)
                   /\ \A tcph \in PeerAcks(q) :
                          LET r == on_packet(c, tcph, now, overflow_checks)
                          IN  (/\ tcph.ackf /\ ~tcph.fin
                               /\ SeqLe(c.send.una, tcph.ack)
                               /\ SeqLe(tcph.ack, c.send.nxt)
                               /\ r.panic = "none")
                                  => r.c.unacked = QueuedFrom(tcph.ack)

\* the handles that refer to the Quad q: pending-queue slots and live Streams
Handles(q) ==
    {<<"pending", s>> : s \in {t \in PendingSlots : pending[t[1]][t[2]] = q}}
        \cup {<<"stream", i>> : i \in {j \in DOMAIN streams : streams[j] = q}}

\* C28: every Quad of connections is referred to by exactly one handle, a
\* pending-queue slot or a live Stream; the Quad of a live Stream is in connections,
\* so that read and write on it do not fail with aborted; and only the drop of
\* its own Stream takes a connection out of the table
C28_handle_ownership ==
    /\ \A q \in DOMAIN connections : Cardinality(Handles(q)) = 1
    /\ \A i \in DOMAIN streams :
           LET q == streams[i]
           IN  /\ q \in DOMAIN connections
               /\ \A n \in BufLens :
                      /\ stream_read(connections, q, n).ret /= "ConnectionAborted"
                      /\ stream_write(connections, q, WriterBuf(n)).ret /= "ConnectionAborted"
               /\ DOMAIN stream_drop(connections, q) = DOMAIN connections \ {q}
    /\ \A port \in DOMAIN pending :
           DOMAIN listener_drop(connections, pending, port).connections = DOMAIN connections

=============================================================================
